---- MODULE Spec2Model ----
(***************************************************************************)
(* Ephemeral file lifecycle of Li-Elias/File-Transfer: the files table     *)
(* (internal/models/files.go), the upload / replace / delete / retrieve    *)
(* handlers and the background deletion jobs with their filesystem steps.  *)
(*                                                                         *)
(* Time is a clock in seconds that advances in steps of Tick; every        *)
(* time.Now() reads it.  All instants are whole seconds, so the            *)
(* timestamp(0) column stores them exactly.  A timer fires no earlier than *)
(* its duration (time.NewTimer: "after at least duration d").              *)
(* A request handler is a process whose steps are its database queries and *)
(* system calls; one request is served at a time, deletion jobs run        *)
(* concurrently with it and with each other.                               *)
(***************************************************************************)
EXTENDS Integers, Sequences, FiniteSets, TLC

\* ---------------------------------------------------------------- bounds
MaxTicks == 3
MaxId == 2
MaxJobs == 2
MaxFaults == 1

\* ------------------------------------------------------ program constants
UploadTimerSec == 30
LifetimeSec == 120
ReplaceTimerSec == 120
MaxFileSize == 1000000
MaxNameLen == 50
CodeLen == 8

\* the clock's resolution: half a lifetime
Tick == LifetimeSec \div 2

Users == {"u1", "u2"}
Names == {"a", "b"}
Codes == {"c1", "c2"}
Data == {"d1"}
Sizes == {100, MaxFileSize + 1}
Ids == 0 .. MaxId

\* content of a file that os.Create has truncated and io.Copy has not filled
Partial == "partial"

\* fmt.Sprintf("./cache/%s/%s", user.Email, handler.Filename)
PathOf(user, name) == <<user, name>>
\* filepath.Dir
Dir(path) == <<path[1]>>
\* the path of a failed DeleteFromUser: ""
NoPath == <<>>
\* the files the clients of this model send
Paths == {PathOf("u1", "a"), PathOf("u1", "b")}

\* errors as (operation, target, errno); err.Error() compares all three
NilErr == <<>>
PathError(op, target, errno) == <<op, target, errno>>
ErrRecordNotFound == <<"record not found">>
ErrStore == <<"store">>
\* the value recover() returns
ErrPanic == <<"panic">>

VARIABLES now, signalled, faults, nextId, rows, dirs, blobs, jobs, req,
          waitgroup, crashed

vars == <<now, signalled, faults, nextId, rows, dirs, blobs, jobs, req,
          waitgroup, crashed>>

\* ------------------------------------------------------------- the store
Live(r) == r.expiry > now

\* files.path without its unique constraint
InsertViolationNoPathKey(path, code) ==
    IF \E r \in rows : r.code = code THEN "duplicate code" ELSE "none"

\* the unique constraints of the files table, in index order
InsertViolation(path, code) ==
    IF \E r \in rows : r.path = path THEN "duplicate path"
    ELSE IF \E r \in rows : r.code = code THEN "duplicate code"
    ELSE "none"

\* the rows each query selects; the empty set is sql.ErrNoRows
GetFromUser(id, u) ==
    IF id < 1 THEN {}
    ELSE {r \in rows : r.id = id /\ r.user_id = u /\ r.expiry > now}

GetAllFromUser(u) == {r \in rows : r.user_id = u /\ r.expiry > now}

\* the lookup by code without its expiry condition
GetFromCodeAnyExpiry(code) == {r \in rows : r.code = code}

GetFromCode(code) == {r \in rows : r.code = code /\ r.expiry > now}

\* the update without its path condition
UpdateFromUserMatchNoPath(path, id, u) ==
    {r \in rows : r.id = id /\ r.user_id = u /\ r.expiry > now}

\* UPDATE files ... WHERE path = $4 AND id = $5 AND user_id = $6 AND expiry > $7
UpdateFromUserMatch(path, id, u) ==
    {r \in rows : r.path = path /\ r.id = id /\ r.user_id = u /\ r.expiry > now}

\* DELETE FROM files WHERE id = $1 AND expiry > $2, on the table rs
DeleteMatch(rs, id) ==
    IF id < 1 THEN {}
    ELSE {r \in rs : r.id = id /\ r.expiry > now}

\* Files.Delete: the table it leaves and the error it returns
FilesDelete(rs, id) ==
    [rows |-> rs \ DeleteMatch(rs, id),
     err |-> IF DeleteMatch(rs, id) = {} THEN ErrRecordNotFound ELSE NilErr]

DeleteFromUserMatch(id, u) ==
    IF id < 1 THEN {}
    ELSE {r \in rows : r.id = id /\ r.user_id = u /\ r.expiry > now}

\* --------------------------------------------------------- the filesystem
Exists(path) == path \in DOMAIN blobs

WriteBlob(path, content) ==
    [p \in (DOMAIN blobs) \cup {path} |-> IF p = path THEN content ELSE blobs[p]]

\* os.Remove(file_path) on the files bs
OsRemove(bs, path) ==
    [blobs |-> [p \in (DOMAIN bs) \ {path} |-> bs[p]],
     err |-> IF path \in DOMAIN bs THEN NilErr
             ELSE PathError("remove", path, "ENOENT")]

\* isFolderEmpty(dirPath): os.ReadDir on the directories ds and files bs
ReadDir(ds, bs, d) ==
    [empty |-> d \in ds /\ {p \in DOMAIN bs : Dir(p) = d} = {},
     err |-> IF d \in ds THEN NilErr ELSE PathError("open", d, "ENOENT")]

\* a removal that takes the directory with whatever is in it
OsRmdirForce(ds, bs, d) ==
    [dirs |-> ds \ {d},
     err |-> IF d \notin ds THEN PathError("remove", d, "ENOENT") ELSE NilErr]

\* os.Remove(dirPath)
OsRmdir(ds, bs, d) ==
    [dirs |-> IF {p \in DOMAIN bs : Dir(p) = d} = {} THEN ds \ {d} ELSE ds,
     err |-> IF d \notin ds THEN PathError("remove", d, "ENOENT")
             ELSE IF {p \in DOMAIN bs : Dir(p) = d} # {}
             THEN PathError("remove", d, "ENOTEMPTY")
             ELSE NilErr]

\* ------------------------------------------------------------- validation
NameLen(name) == 1
ValidateFile(name, size) ==
    /\ NameLen(name) <= MaxNameLen
    /\ size <= MaxFileSize
    /\ CodeLen = 8

\* ---------------------------------------------------------------- faults
\* a store write or a disk call may fail while the fault budget lasts
Outcomes == IF faults < MaxFaults THEN {"ok", "fail"} ELSE {"ok"}
\* a task function may also panic
TaskOutcomes == IF faults < MaxFaults THEN {"ok", "fail", "panic"} ELSE {"ok"}
Charge(o) == faults' = IF o = "ok" THEN faults ELSE faults + 1

\* --------------------------------------------------------------- requests
Idle ==
    [kind |-> "none", user |-> "", id |-> 0, path |-> NoPath, data |-> "",
     pc |-> "done", status |-> "none"]

Busy == req.pc # "done"
\* a response is handed over before anything else is looked at
Answered == req.status # "none"

\* the server takes no new request once the termination signal has arrived
Accepting == ~signalled

\* the first WriteHeader decides the response status
Respond(r, status) == IF r.status = "none" THEN [r EXCEPT !.status = status] ELSE r
\* a finished request holds its response until the client has taken it
Finish(r, status) ==
    [Idle EXCEPT !.kind = r.kind, !.status = Respond(r, status).status]

NewReq(kind, u, id, path, data) ==
    [Idle EXCEPT !.kind = kind, !.user = u, !.id = id, !.path = path,
                 !.data = data, !.pc = "start"]

Init ==
    /\ now = 0
    /\ signalled = FALSE
    /\ faults = 0
    /\ nextId = 1
    /\ rows = {}
    /\ dirs = {}
    /\ blobs = <<>>
    /\ jobs = <<>>
    /\ req = Idle
    /\ waitgroup = 0
    /\ crashed = FALSE

\* ------------------------------------------------------------------ clock
Advance ==
    /\ ~Answered
    /\ now < MaxTicks * Tick
    /\ now' = now + Tick
    /\ UNCHANGED <<signalled, faults, nextId, rows, dirs, blobs, jobs, req, waitgroup, crashed>>

\* ---------------------------------------------------------- background jobs
\* app.background: app.waitgroup.Add(1) before the go statement
Register(wg) == wg + 1

\* a task exit that calls Done after fn() and recovers nothing
TaskExitNoRecover(wg, panicked) ==
    [waitgroup |-> IF panicked THEN wg ELSE wg - 1, crashed |-> panicked]

\* app.background: the deferred function of the goroutine, run when fn
\* returns or panics: defer app.waitgroup.Done(), recover() and PrintError
TaskExit(wg, panicked) ==
    [waitgroup |-> wg - 1, crashed |-> FALSE]

\* time.NewTimer(d) and app.background(select { timer.C | cancel }) with the
\* path and id captured at scheduling time
NewJob(id, path, d) ==
    [id |-> id, path |-> path, deadline |-> now + d, pc |-> "wait", err |-> NilErr]

TimerOf(kind) == IF kind = "upload" THEN UploadTimerSec ELSE ReplaceTimerSec

\* ----------------------------------------------------- uploadFileHandler
NewFile(u, name, size, code) ==
    [id |-> nextId, name |-> name, size |-> size, path |-> PathOf(u, name),
     code |-> code, expiry |-> now + LifetimeSec, last_updated |-> now,
     user_id |-> u]

\* FormFile, ValidateFile and Files.Insert
UploadStart(u, name, size, code, data, form) ==
    /\ req = Idle
    /\ Accepting
    /\ nextId <= MaxId
    /\ Len(jobs) < MaxJobs
    /\ PathOf(u, name) \in Paths
    /\ LET r == NewReq("upload", u, 0, PathOf(u, name), data)
           v == InsertViolation(PathOf(u, name), code)
       IN  IF ~form
           THEN /\ req' = Finish(r, "BadRequest")
                /\ UNCHANGED <<faults, nextId, rows>>
           ELSE IF ~ValidateFile(name, size)
           THEN /\ req' = Finish(r, "Invalid")
                /\ UNCHANGED <<faults, nextId, rows>>
           ELSE \E o \in Outcomes :
                /\ Charge(o)
                /\ IF o = "fail"
                   THEN /\ req' = Finish(r, "ServerError")
                        /\ UNCHANGED <<nextId, rows>>
                   ELSE /\ nextId' = nextId + 1
                        /\ IF v = "duplicate path"
                           THEN /\ req' = Finish(r, "DuplicatePath")
                                /\ UNCHANGED rows
                           ELSE IF v # "none"
                           THEN /\ req' = Finish(r, "ServerError")
                                /\ UNCHANGED rows
                           ELSE /\ rows' = rows \cup {NewFile(u, name, size, code)}
                                /\ req' = [r EXCEPT !.id = nextId, !.pc = "mkdir"]
    /\ UNCHANGED <<now, signalled, dirs, blobs, jobs, waitgroup, crashed>>

\* ------------------------------------------------------------- createFile
\* os.MkdirAll(folder_path)
CreateMkdir ==
    /\ req.pc = "mkdir"
    /\ \E o \in Outcomes :
        /\ Charge(o)
        /\ IF o = "fail"
           THEN /\ req' = Finish(req, "ServerError")
                /\ UNCHANGED dirs
           ELSE /\ dirs' = dirs \cup {Dir(req.path)}
                /\ req' = [req EXCEPT !.pc = "create"]
    /\ UNCHANGED <<now, signalled, nextId, rows, blobs, jobs, waitgroup, crashed>>

\* os.Create(file_path): fails when the directory is gone, truncates otherwise
CreateOpen ==
    /\ req.pc = "create"
    /\ IF Dir(req.path) \notin dirs
       THEN /\ req' = Finish(req, "ServerError")
            /\ UNCHANGED <<faults, blobs>>
       ELSE \E o \in Outcomes :
            /\ Charge(o)
            /\ IF o = "fail"
               THEN /\ req' = Finish(req, "ServerError")
                    /\ UNCHANGED blobs
               ELSE /\ blobs' = WriteBlob(req.path, Partial)
                    /\ req' = [req EXCEPT !.pc = "copy"]
    /\ UNCHANGED <<now, signalled, nextId, rows, dirs, jobs, waitgroup, crashed>>

\* a handler that schedules the deletion job whether or not io.Copy succeeded
CreateCopyAlwaysSchedules ==
    /\ req.pc = "copy"
    /\ \E o \in Outcomes :
        /\ Charge(o)
        /\ blobs' = IF o = "ok" /\ Exists(req.path) THEN WriteBlob(req.path, req.data)
                    ELSE blobs
        /\ jobs' = Append(jobs, NewJob(req.id, req.path, TimerOf(req.kind)))
        /\ waitgroup' = Register(waitgroup)
        /\ req' = Finish(req, IF o = "ok" THEN "Accepted" ELSE "ServerError")
    /\ UNCHANGED <<now, signalled, nextId, rows, dirs, crashed>>

\* io.Copy(f, file), then time.NewTimer, app.background and writeJSON(202).
\* A file unlinked since os.Create takes the bytes with it.
CreateCopy ==
    /\ req.pc = "copy"
    /\ \E o \in Outcomes :
        /\ Charge(o)
        /\ IF o = "fail"
           THEN /\ req' = Finish(req, "ServerError")
                /\ UNCHANGED <<blobs, jobs, waitgroup, crashed>>
           ELSE /\ blobs' = IF Exists(req.path) THEN WriteBlob(req.path, req.data)
                            ELSE blobs
                /\ jobs' = Append(jobs, NewJob(req.id, req.path, TimerOf(req.kind)))
                /\ waitgroup' = Register(waitgroup)
                /\ UNCHANGED crashed
                /\ req' = Finish(req, "Accepted")
    /\ UNCHANGED <<now, signalled, nextId, rows, dirs>>

\* ----------------------------------------------------- updateUserFileHandler
\* UPDATE files SET expiry, last_updated, code WHERE path, id, user_id, expiry > now
Updated(r, code) ==
    [r EXCEPT !.expiry = now + LifetimeSec, !.last_updated = now, !.code = code]

\* the id parameter, FormFile and Files.UpdateFromUser
UpdateStart(u, name, id, code, data, form) ==
    /\ req = Idle
    /\ Accepting
    /\ Len(jobs) < MaxJobs
    /\ LET path == PathOf(u, name)
           r == NewReq("update", u, id, path, data)
           m == UpdateFromUserMatch(path, id, u)
       IN  IF id < 1
           THEN /\ req' = Finish(r, "NotFound")
                /\ UNCHANGED <<faults, rows>>
           ELSE IF ~form
           THEN /\ req' = Finish(r, "BadRequest")
                /\ UNCHANGED <<faults, rows>>
           ELSE \E o \in Outcomes :
                /\ Charge(o)
                /\ IF o = "fail"
                   THEN /\ req' = Finish(r, "ServerError")
                        /\ UNCHANGED rows
                   ELSE IF m = {}
                   THEN /\ req' = Finish(r, "NotFound")
                        /\ UNCHANGED rows
                   ELSE IF \E x \in rows \ m : x.code = code
                   THEN /\ req' = Finish(r, "ServerError")
                        /\ UNCHANGED rows
                   ELSE /\ rows' = (rows \ m) \cup {Updated(x, code) : x \in m}
                        /\ req' = [r EXCEPT !.pc = "stat"]
    /\ UNCHANGED <<now, signalled, nextId, dirs, blobs, jobs, waitgroup, crashed>>

\* os.Stat(file_path): "check if path exists"
UpdateStat ==
    /\ req.pc = "stat"
    /\ req' = IF Exists(req.path) THEN [req EXCEPT !.pc = "mkdir"]
              ELSE Finish(req, "ServerError")
    /\ UNCHANGED <<now, signalled, faults, nextId, rows, dirs, blobs, jobs, waitgroup, crashed>>

\* ----------------------------------------------------- deleteUserFileHandler
\* The id parameter and Files.DeleteFromUser.  A failed DeleteFromUser writes
\* the server error and goes on to os.Remove(""), which fails and returns.
DeleteStart(u, id) ==
    /\ req = Idle
    /\ Accepting
    /\ LET r == NewReq("delete", u, id, NoPath, "")
           m == DeleteFromUserMatch(id, u)
       IN  IF id < 1
           THEN /\ req' = Finish(r, "NotFound")
                /\ UNCHANGED <<faults, rows>>
           ELSE \E o \in Outcomes :
                /\ Charge(o)
                /\ IF o = "fail" \/ m = {}
                   THEN /\ req' = Finish(r, "ServerError")
                        /\ UNCHANGED rows
                   ELSE /\ rows' = rows \ m
                        /\ req' = [r EXCEPT !.pc = "remove",
                                            !.path = (CHOOSE x \in m : TRUE).path]
    /\ UNCHANGED <<now, signalled, nextId, dirs, blobs, jobs, waitgroup, crashed>>

\* os.Remove(path): any error is answered and the handler returns
DeleteRemove ==
    /\ req.pc = "remove"
    /\ \E o \in Outcomes :
        /\ Charge(o)
        /\ LET b == IF o = "fail"
                    THEN [blobs |-> blobs, err |-> PathError("remove", req.path, "EIO")]
                    ELSE OsRemove(blobs, req.path)
           IN  /\ blobs' = b.blobs
               /\ req' = IF b.err # NilErr THEN Finish(req, "ServerError")
                         ELSE [req EXCEPT !.pc = "readdir"]
    /\ UNCHANGED <<now, signalled, nextId, rows, dirs, jobs, waitgroup, crashed>>

\* deleteEmptyFolder: isFolderEmpty.  An error is answered with the server
\* error and the handler goes on to writeJSON(200).
DeleteReadDir ==
    /\ req.pc = "readdir"
    /\ LET c == ReadDir(dirs, blobs, Dir(req.path))
       IN  req' = IF c.err # NilErr THEN Finish(req, "ServerError")
                  ELSE IF c.empty THEN [req EXCEPT !.pc = "rmdir"]
                  ELSE Finish(req, "OK")
    /\ UNCHANGED <<now, signalled, faults, nextId, rows, dirs, blobs, jobs, waitgroup, crashed>>

\* deleteEmptyFolder: os.Remove(dirPath)
DeleteRmdir ==
    /\ req.pc = "rmdir"
    /\ LET c == OsRmdir(dirs, blobs, Dir(req.path))
       IN  /\ dirs' = c.dirs
           /\ req' = Finish(req, IF c.err # NilErr THEN "ServerError" ELSE "OK")
    /\ UNCHANGED <<now, signalled, faults, nextId, rows, blobs, jobs, waitgroup, crashed>>

\* ------------------------------------------------------------------ reads
\* getUserFileHandler
GetUserFile(u, id) ==
    /\ req = Idle
    /\ Accepting
    /\ req' = Finish(NewReq("get", u, id, NoPath, ""),
                     IF id < 1 THEN "NotFound"
                     ELSE IF GetFromUser(id, u) = {} THEN "NotFound"
                     ELSE "OK")
    /\ UNCHANGED <<now, signalled, faults, nextId, rows, dirs, blobs, jobs, waitgroup, crashed>>

\* listUserFilesHandler
ListUserFiles(u) ==
    /\ req = Idle
    /\ Accepting
    /\ req' = Finish(NewReq("list", u, 0, NoPath, ""), "OK")
    /\ UNCHANGED <<now, signalled, faults, nextId, rows, dirs, blobs, jobs, waitgroup, crashed>>

\* getFileFromCodeHandler: Files.GetFromCode
CodeStart(code) ==
    /\ req = Idle
    /\ Accepting
    /\ LET r == NewReq("code", "", 0, NoPath, "")
           m == GetFromCode(code)
       IN  req' = IF m = {} THEN Finish(r, "NotFound")
                  ELSE [r EXCEPT !.pc = "open",
                                 !.id = (CHOOSE x \in m : TRUE).id,
                                 !.path = (CHOOSE x \in m : TRUE).path]
    /\ UNCHANGED <<now, signalled, faults, nextId, rows, dirs, blobs, jobs, waitgroup, crashed>>

\* getFileFromCodeHandler: os.Open, Stat and io.Copy to the response
CodeOpen ==
    /\ req.pc = "open"
    /\ req' = IF Exists(req.path) THEN Finish(req, "OK")
              ELSE Finish(req, "ServerError")
    /\ UNCHANGED <<now, signalled, faults, nextId, rows, dirs, blobs, jobs, waitgroup, crashed>>

\* the response leaves the handler
Ack ==
    /\ Answered
    /\ req' = Idle
    /\ UNCHANGED <<now, signalled, faults, nextId, rows, dirs, blobs, jobs, waitgroup, crashed>>

\* ------------------------------------------------- deleteFileInBackground
\* SIGINT or SIGTERM reaches the cancel channel of every waiting job
Signal ==
    /\ ~Answered
    /\ ~signalled
    /\ signalled' = TRUE
    /\ jobs' = [i \in DOMAIN jobs |->
                  IF jobs[i].pc = "wait"
                  THEN [jobs[i] EXCEPT !.pc = "armed", !.deadline = 0]
                  ELSE jobs[i]]
    /\ UNCHANGED <<now, faults, nextId, rows, dirs, blobs, req, waitgroup, crashed>>

\* a select that does not block
FiredUnblocked(j) == TRUE

\* the select returns: the cancel channel or the timer channel is ready
Fired(j) == j.pc = "armed" \/ (j.pc = "wait" /\ now >= j.deadline)

\* err != nil && err.Error() != "record not found"
DeleteSurfaces(err) == err # NilErr /\ err # ErrRecordNotFound
\* err != nil && err.Error() != "remove <file_path>: no such file or directory"
RemoveSurfaces(err, path) == err # NilErr /\ err # PathError("remove", path, "ENOENT")
\* err != nil && err.Error() != "open <folder_path>: no such file or directory"
FolderSurfaces(err, folder) == err # NilErr /\ err # PathError("open", folder, "ENOENT")

\* One step of deleteFileInBackground(path, id) at pc on the store and disk
\* st, the call ending as o: the store and disk it leaves, where it goes on,
\* the error it returns and whether Files.Delete deleted a row.
PurgeStep(st, pc, path, id, o) ==
    LET d == Dir(path)
        a == IF o = "fail" THEN [rows |-> st.rows, err |-> ErrStore]
             ELSE FilesDelete(st.rows, id)
        b == IF o = "fail"
             THEN [blobs |-> st.blobs, err |-> PathError("remove", path, "EIO")]
             ELSE OsRemove(st.blobs, path)
        c == ReadDir(st.dirs, st.blobs, d)
        e == OsRmdir(st.dirs, st.blobs, d)
        out(rs, bs, ds, to, err, del) ==
            [rows |-> rs, blobs |-> bs, dirs |-> ds, pc |-> to, err |-> err,
             deleted |-> del]
    IN  IF pc = "delete"
        THEN out(a.rows, st.blobs, st.dirs,
                 IF DeleteSurfaces(a.err) THEN "done" ELSE "remove",
                 IF DeleteSurfaces(a.err) THEN a.err ELSE NilErr,
                 a.err = NilErr)
        ELSE IF pc = "remove"
        THEN out(st.rows, b.blobs, st.dirs,
                 IF RemoveSurfaces(b.err, path) THEN "done" ELSE "readdir",
                 IF RemoveSurfaces(b.err, path) THEN b.err ELSE NilErr,
                 FALSE)
        ELSE IF pc = "readdir"
        THEN out(st.rows, st.blobs, st.dirs,
                 IF c.err = NilErr /\ c.empty THEN "rmdir" ELSE "done",
                 IF FolderSurfaces(c.err, d) THEN c.err ELSE NilErr,
                 FALSE)
        ELSE out(st.rows, st.blobs, e.dirs, "done",
                 IF FolderSurfaces(e.err, d) THEN e.err ELSE NilErr,
                 FALSE)

Disk == [rows |-> rows, blobs |-> blobs, dirs |-> dirs]

\* job i takes its step at pc; a panic ends the task function at once, and
\* the function's return runs the deferred exit of app.background
JobStep(i, pc, o) ==
    LET n == IF o = "panic"
             THEN [rows |-> rows, blobs |-> blobs, dirs |-> dirs, pc |-> "done",
                   err |-> ErrPanic]
             ELSE PurgeStep(Disk, pc, jobs[i].path, jobs[i].id, o)
        x == TaskExit(waitgroup, o = "panic")
    IN  /\ rows' = n.rows
        /\ blobs' = n.blobs
        /\ dirs' = n.dirs
        /\ jobs' = [jobs EXCEPT ![i].pc = n.pc, ![i].err = n.err, ![i].deadline = 0]
        /\ IF n.pc = "done"
           THEN waitgroup' = x.waitgroup /\ crashed' = x.crashed
           ELSE UNCHANGED <<waitgroup, crashed>>

\* the select returns; Files.Delete(file_id)
JobDelete(i) ==
    /\ ~Answered
    /\ Fired(jobs[i])
    /\ \E o \in TaskOutcomes : Charge(o) /\ JobStep(i, "delete", o)
    /\ UNCHANGED <<now, signalled, nextId, req>>

\* os.Remove(file_path)
JobRemove(i) ==
    /\ ~Answered
    /\ jobs[i].pc = "remove"
    /\ \E o \in TaskOutcomes : Charge(o) /\ JobStep(i, "remove", o)
    /\ UNCHANGED <<now, signalled, nextId, req>>

\* deleteEmptyFolder: isFolderEmpty(dirPath)
JobReadDir(i) ==
    /\ ~Answered
    /\ jobs[i].pc = "readdir"
    /\ JobStep(i, "readdir", "ok")
    /\ UNCHANGED <<now, signalled, faults, nextId, req>>

\* deleteEmptyFolder: os.Remove(dirPath)
JobRmdir(i) ==
    /\ ~Answered
    /\ jobs[i].pc = "rmdir"
    /\ JobStep(i, "rmdir", "ok")
    /\ UNCHANGED <<now, signalled, faults, nextId, req>>

\* deleteFileInBackground(file_path, file_id) run from pc to its return on
\* the store and disk st, with nothing in between
RECURSIVE RunPurge(_, _, _, _)
RunPurge(st, pc, path, id) ==
    IF pc = "done" THEN st
    ELSE LET n == PurgeStep(st, pc, path, id, "ok")
         IN  IF n.err # NilErr THEN n ELSE RunPurge(n, n.pc, path, id)

DeleteFileInBackground(st, path, id) == RunPurge(st, "delete", path, id)

\* Two purges of (path, id) run together from st, A at pc a and B at pc b:
\* what every interleaving of their steps ends with, as the errors of A and
\* of B and the number of rows deleted.
RECURSIVE RacePurges(_, _, _, _, _, _, _, _)
RacePurges(st, a, ea, b, eb, n, path, id) ==
    IF a = "done" /\ b = "done" THEN {[errA |-> ea, errB |-> eb, deleted |-> n]}
    ELSE (IF a = "done" THEN {}
          ELSE LET x == PurgeStep(st, a, path, id, "ok")
               IN  RacePurges(x, x.pc, x.err, b, eb,
                              IF x.deleted THEN n + 1 ELSE n, path, id))
         \cup
         (IF b = "done" THEN {}
          ELSE LET y == PurgeStep(st, b, path, id, "ok")
               IN  RacePurges(y, a, ea, y.pc, y.err,
                              IF y.deleted THEN n + 1 ELSE n, path, id))

Next ==
    \/ Advance
    \/ Signal
    \/ \E u \in Users, name \in Names, size \in Sizes, code \in Codes,
          data \in Data, form \in BOOLEAN :
            UploadStart(u, name, size, code, data, form)
    \/ \E u \in Users, name \in Names, id \in Ids, code \in Codes,
          data \in Data, form \in BOOLEAN :
            UpdateStart(u, name, id, code, data, form)
    \/ UpdateStat
    \/ CreateMkdir
    \/ CreateOpen
    \/ CreateCopy
    \/ \E u \in Users, id \in Ids : DeleteStart(u, id)
    \/ DeleteRemove
    \/ DeleteReadDir
    \/ DeleteRmdir
    \/ \E u \in Users, id \in Ids : GetUserFile(u, id)
    \/ \E u \in Users : ListUserFiles(u)
    \/ \E code \in Codes : CodeStart(code)
    \/ CodeOpen
    \/ Ack
    \/ \E i \in DOMAIN jobs : JobDelete(i)
    \/ \E i \in DOMAIN jobs : JobRemove(i)
    \/ \E i \in DOMAIN jobs : JobReadDir(i)
    \/ \E i \in DOMAIN jobs : JobRmdir(i)

Spec == Init /\ [][Next]_vars

\* ================================================================ claims
HasJob(id) == \E i \in DOMAIN jobs : jobs[i].id = id
RowOf(id) == {r \in rows : r.id = id}

\* C1: running the purge twice in a row for the id and path of a deletion
\* job returns no error either time and leaves neither a row with that id
\* nor a blob at that path.
C1_IdempotentPurge ==
    \A i \in DOMAIN jobs :
        LET id == jobs[i].id
            path == jobs[i].path
            first == DeleteFileInBackground(Disk, path, id)
            second == DeleteFileInBackground(first, path, id)
        IN  /\ first.err = NilErr
            /\ second.err = NilErr
            /\ ~ \E r \in second.rows : r.id = id
            /\ path \notin DOMAIN second.blobs

\* C2: a record whose expiry is not after now is returned by no retrieval
\* by owner and id, by none by public code and by no listing, whether or
\* not its row or its blob is still there.
C2_LivenessFiltering ==
    \A r \in rows :
        r.expiry <= now =>
            /\ \A u \in Users, id \in Ids : r \notin GetFromUser(id, u)
            /\ \A code \in Codes : r \notin GetFromCode(code)
            /\ \A u \in Users : r \notin GetAllFromUser(u)

C2_Witness ==
    \E r \in rows : r.expiry <= now /\ Exists(r.path) /\ blobs[r.path] \in Data

\* C3: an upload whose path an existing record holds is answered
\* DuplicatePath and returns at once: nothing is written, no job is
\* scheduled, and the rows and the blobs stay as they were.
C3_PathUniqueness ==
    [][\A u \in Users, name \in Names, size \in Sizes, code \in Codes, data \in Data :
          ( /\ UploadStart(u, name, size, code, data, TRUE)
            /\ ValidateFile(name, size)
            /\ faults' = faults
            /\ \E r \in rows : r.path = PathOf(u, name) )
          => ( /\ req'.status = "DuplicatePath"
               /\ req'.pc = "done"
               /\ rows' = rows
               /\ blobs' = blobs
               /\ dirs' = dirs
               /\ jobs' = jobs )]_vars

C3_Witness ==
    /\ req.kind = "upload"
    /\ req.status = "DuplicatePath"
    /\ \E r \in rows : Exists(r.path) /\ blobs[r.path] \in Data

\* C4: while a record whose upload failed to write the blob is live, a
\* retrieval of it by owner and id and a retrieval by its public code are
\* both answered with the server error, never with success or NotFound.
\* Such a record has had no deletion job scheduled for it.
C4_InconsistentReported ==
    [][\A r \in rows :
          (~HasJob(r.id) /\ Live(r)) =>
              /\ GetUserFile(r.user_id, r.id) => req'.status = "ServerError"
              /\ CodeStart(r.code) => req'.pc = "open"
              /\ (CodeOpen /\ req.id = r.id) => req'.status = "ServerError"]_vars

\* C5: when the deletion job of the upload and the one of a later replace
\* of the same id are both pending, every interleaving of their purges
\* deletes the row exactly once and returns no error from either.
C5_ReplacementRace ==
    \A i, j \in DOMAIN jobs :
        ( /\ i < j
          /\ jobs[i].id = jobs[j].id
          /\ jobs[i].pc \in {"wait", "armed"}
          /\ jobs[j].pc \in {"wait", "armed"}
          /\ req = Idle
          /\ \E r \in RowOf(jobs[i].id) : Live(r) )
        => \A end \in RacePurges(Disk, "delete", NilErr, "delete", NilErr, 0,
                                 jobs[i].path, jobs[i].id) :
              /\ end.errA = NilErr
              /\ end.errB = NilErr
              /\ end.deleted = 1

\* C6: a retrieve, a replace or an explicit delete of a live record by a
\* user who does not own it is answered NotFound and changes neither the
\* rows nor the blobs.
C6_OwnershipScoping ==
    [][\A r \in rows, u \in Users :
          (Live(r) /\ Exists(r.path) /\ u # r.user_id /\ faults' = 0) =>
              /\ GetUserFile(u, r.id) => req'.status = "NotFound"
              /\ \A name \in Names, code \in Codes, data \in Data :
                    UpdateStart(u, name, r.id, code, data, TRUE)
                        => (req'.status = "NotFound" /\ rows' = rows /\ blobs' = blobs)
              /\ DeleteStart(u, r.id)
                    => (req'.status = "NotFound" /\ rows' = rows /\ blobs' = blobs)]_vars

\* C7: (eventual removal, read at the end of the schedule) with no store or
\* disk failure, once no request is in progress and every scheduled deletion
\* job has returned, no row is left for the id of any job and no blob at its
\* path.  Nothing is scheduled in such a state, and no operation deletes a
\* row that has expired.
C7_EventualRemoval ==
    ( /\ faults = 0
      /\ req = Idle
      /\ \A i \in DOMAIN jobs : jobs[i].pc = "done" )
    => \A i \in DOMAIN jobs : RowOf(jobs[i].id) = {} /\ ~Exists(jobs[i].path)

\* C8: without an explicit delete and without a termination signal, a live
\* record stays in the table and its blob on the disk: no deletion job
\* fires before the expiry.
C8_ArmedAfterLifetime ==
    [][\A r \in rows :
          ( /\ Live(r)
            /\ HasJob(r.id)
            /\ ~signalled'
            /\ ~ \E u \in Users, id \in Ids : DeleteStart(u, id) )
          => /\ \E x \in rows' : x.id = r.id
             /\ Exists(r.path) => r.path \in DOMAIN blobs']_vars

\* C9: once a record has been replaced, a step of the deletion job that its
\* original upload scheduled changes neither the rows nor the blobs.
C9_StaleTimerNoOp ==
    [][\A i, j \in DOMAIN jobs :
          ( /\ i < j
            /\ jobs[i].id = jobs[j].id
            /\ jobs'[i].pc # jobs[i].pc
            /\ jobs'[i].pc # "armed" )
          => (rows' = rows /\ blobs' = blobs)]_vars

\* C10: with no store or disk call failing and no deletion job but those
\* of one id, an explicit delete of that id that comes after its purge is
\* answered NotFound, and one whose steps interleave with the purge is
\* never answered with the server error.
C10_ManualDeleteRace ==
    [][( /\ faults' = 0
         /\ jobs # <<>>
         /\ \A i \in DOMAIN jobs : jobs[i].id = jobs[1].id )
       => /\ \A u \in Users :
                ( /\ DeleteStart(u, jobs[1].id)
                  /\ RowOf(jobs[1].id) = {}
                  /\ \E i \in DOMAIN jobs : jobs[i].pc \notin {"wait", "armed"} )
                => req'.status = "NotFound"
          /\ (req.kind = "delete" /\ Busy /\ req.id = jobs[1].id)
                => req'.status # "ServerError"]_vars

\* C11: an upload is answered DuplicatePath only if a live record
\* (expiry > now) holds the path it computes; a path whose only record has
\* expired does not cause the rejection.
C11_DuplicateOnlyLive ==
    [][\A u \in Users, name \in Names, size \in Sizes, code \in Codes, data \in Data :
          ( /\ UploadStart(u, name, size, code, data, TRUE)
            /\ req'.status = "DuplicatePath" )
          => \E r \in rows : r.path = PathOf(u, name) /\ Live(r)]_vars

\* C12: an explicit delete by the owner of a live record whose blob is not
\* on the disk removes the row, is not answered with the server error for
\* the missing file, and goes on to prune the directory.
C12_DeleteToleratesMissingBlob ==
    [][( /\ DeleteRemove
         /\ ~Exists(req.path)
         /\ faults' = faults )
       => /\ RowOf(req.id) = {}
          /\ req'.status # "ServerError"
          /\ req'.pc = "readdir"]_vars

\* C13: whenever no upload or replace of its path is in progress, a live
\* record has its blob on the disk at its path.
C13_BlobRecordConsistency ==
    \A r \in rows :
        ( /\ Live(r)
          /\ ~(Busy /\ req.kind \in {"upload", "update"} /\ req.path = r.path) )
        => Exists(r.path)

\* the order of the statements of a deletion job
PcRank(pc) ==
    CASE pc = "wait" -> 0
      [] pc = "armed" -> 1
      [] pc = "remove" -> 2
      [] pc = "readdir" -> 3
      [] pc = "rmdir" -> 4
      [] OTHER -> 5

\* C14: a deletion job keeps the id and path it was scheduled with, waits
\* until its timer is due or the termination signal has arrived, starts its
\* purge (Files.Delete) once, never starts it again and never goes back, and
\* leaves its wait only by starting the purge.
C14_OnePurgePerJob ==
    [][\A i \in DOMAIN jobs :
          /\ jobs'[i].id = jobs[i].id
          /\ jobs'[i].path = jobs[i].path
          /\ PcRank(jobs'[i].pc) >= PcRank(jobs[i].pc)
          /\ (jobs[i].pc = "wait" /\ jobs'[i].pc # "wait")
                => (now >= jobs[i].deadline \/ signalled')
          /\ (jobs[i].pc \in {"wait", "armed"} /\ jobs'[i].pc \notin {"wait", "armed"})
                => JobDelete(i)
          /\ jobs[i].pc \notin {"wait", "armed"} => ~JobDelete(i)]_vars

C14_Witness ==
    /\ signalled
    /\ \E i, j \in DOMAIN jobs :
          /\ i # j
          /\ jobs[i].pc = "done" /\ jobs[i].err = NilErr
          /\ jobs[j].pc = "done" /\ jobs[j].err = NilErr

\* the tasks that have been launched and have not finished
Unfinished == {i \in DOMAIN jobs : jobs[i].pc # "done"}

\* C15: the wait group counts the launched and unfinished tasks: a task is
\* registered when it is launched and deregistered once when it ends, by
\* return or by panic; a panic is recovered and does not end the process.
C15_TaskRegistry ==
    /\ waitgroup = Cardinality(Unfinished)
    /\ ~crashed

C15_Witness ==
    /\ Len(jobs) = 2
    /\ waitgroup = 0
    /\ \E i \in DOMAIN jobs : jobs[i].err = ErrPanic
    /\ \E i \in DOMAIN jobs : jobs[i].err = NilErr

\* C16: a replace for which no live row has the given id, the caller as
\* owner and the computed path is answered NotFound and returns at once: no
\* blob is written, no job is scheduled, every row and every blob stays as
\* it was.
C16_FailedReplaceChangesNothing ==
    [][\A u \in Users, name \in Names, id \in Ids, code \in Codes, data \in Data :
          ( /\ UpdateStart(u, name, id, code, data, TRUE)
            /\ faults' = faults
            /\ ~ \E r \in rows : /\ r.id = id
                                 /\ r.user_id = u
                                 /\ r.path = PathOf(u, name)
                                 /\ Live(r) )
          => ( /\ req'.status = "NotFound"
               /\ req'.pc = "done"
               /\ rows' = rows
               /\ blobs' = blobs
               /\ dirs' = dirs
               /\ jobs' = jobs )]_vars

C16_Witness ==
    /\ req.kind = "update"
    /\ req.status = "NotFound"
    /\ \E r \in rows : Live(r) /\ Exists(r.path) /\ blobs[r.path] \in Data

FilesIn(bs, d) == {p \in DOMAIN bs : Dir(p) = d}

\* the blobs at paths other than p are the same after the step
OthersKept(p) ==
    \A q \in DOMAIN blobs : q # p => (q \in DOMAIN blobs' /\ blobs'[q] = blobs[q])

\* C18: a step of a purge or of an explicit delete of the file at p leaves
\* every blob at another path as it was; a directory is removed only by the
\* directory removal of a purge or delete, and only when no file is in it;
\* when a purge returns without error, or an explicit delete is answered
\* OK, and no file is left in the directory of p, the directory is gone.
C18_DirectoryPruningSafe ==
    [][/\ \A i \in DOMAIN jobs :
             (JobDelete(i) \/ JobRemove(i) \/ JobReadDir(i) \/ JobRmdir(i))
                => /\ OthersKept(jobs[i].path)
                   /\ ( /\ jobs'[i].pc = "done"
                        /\ jobs'[i].err = NilErr
                        /\ FilesIn(blobs', Dir(jobs[i].path)) = {} )
                      => Dir(jobs[i].path) \notin dirs'
       /\ (DeleteRemove \/ DeleteReadDir \/ DeleteRmdir)
             => /\ OthersKept(req.path)
                /\ (req'.status = "OK" /\ FilesIn(blobs', Dir(req.path)) = {})
                      => Dir(req.path) \notin dirs'
       /\ \A d \in dirs \ dirs' :
             /\ FilesIn(blobs, d) = {}
             /\ FilesIn(blobs', d) = {}
             /\ \/ DeleteRmdir /\ d = Dir(req.path)
                \/ \E i \in DOMAIN jobs : JobRmdir(i) /\ d = Dir(jobs[i].path)]_vars

C18_Witness ==
    \E i \in DOMAIN jobs :
        /\ jobs[i].pc = "done"
        /\ jobs[i].err = NilErr
        /\ ~Exists(jobs[i].path)
        /\ \E q \in DOMAIN blobs :
              /\ q # jobs[i].path
              /\ Dir(q) = Dir(jobs[i].path)
              /\ blobs[q] \in Data
              /\ Dir(q) \in dirs

\* C19: with no store or disk call failing, a step of a deletion job does
\* not remove the blob at its path while a live record of another id, whose
\* upload has completed, holds that path.
C19_StaleJobSparesOtherBlob ==
    [][\A i \in DOMAIN jobs, r \in rows :
          ( /\ jobs'[i].pc # jobs[i].pc
            /\ faults' = 0
            /\ HasJob(r.id)
            /\ r.path = jobs[i].path
            /\ r.id # jobs[i].id
            /\ Live(r)
            /\ Exists(r.path)
            /\ req = Idle )
          => r.path \in DOMAIN blobs']_vars

\* C20: with no store or disk call failing, while an upload writes its blob
\* and the one deletion job there is purges another file of the same
\* directory, no step makes the upload end with the server error, an
\* accepted upload has its blob on the disk, and the purge returns no error.
C20_UploadSurvivesPurge ==
    [][( /\ faults' = 0
         /\ req.kind = "upload"
         /\ Busy
         /\ Len(jobs) = 1
         /\ jobs[1].path # req.path
         /\ Dir(jobs[1].path) = Dir(req.path) )
       => /\ req'.status # "ServerError"
          /\ req'.status = "Accepted"
                => (req.path \in DOMAIN blobs' /\ blobs'[req.path] = req.data)
          /\ jobs'[1].err = NilErr]_vars

\* C21: whenever no upload or replace is in progress, every blob on the
\* disk has a deletion job for its path that has not finished its purge
\* (a fortiori the claim's "not yet fired" fails where this does).
C21_NoBlobWithoutPurge ==
    ~(Busy /\ req.kind \in {"upload", "update"})
        => \A p \in DOMAIN blobs :
              \E i \in DOMAIN jobs : jobs[i].path = p /\ jobs[i].pc # "done"
====
